---- MODULE Spec2Model ----
(***************************************************************************)
(* Tileset file formats of bw_assets (CV5, VX4, VF4, VR4, WPE): the nom    *)
(* parsers that decode them, the Index implementations that chain the      *)
(* decoded tables, and the bit accessors of VX4 and VF4.                   *)
(***************************************************************************)
EXTENDS Integers, Sequences, FiniteSets, TLC

VARIABLES pending, last, prev, assets, outcome, word, eval

vars == <<pending, last, prev, assets, outcome, word, eval>>

(***************************************************************************)
(* Bounds of the model.                                                    *)
(***************************************************************************)
\* complete records in an input buffer: 0..MaxRecords
MaxRecords == 2
\* byte patterns filling an input buffer: 0..MaxSeed
MaxSeed == 1
\* variants of each tileset file offered to the chain: 0..MaxVariant
MaxVariant == 1
\* megatile groups queried: 0..MaxGroup
MaxGroup == 1

(***************************************************************************)
(* Integer widths.                                                         *)
(***************************************************************************)
U8Max == 255
U16Max == 65535
U8 == 0..U8Max
U16 == 0..U16Max

(***************************************************************************)
(* The operators &, | and >> on unsigned integers.                         *)
(***************************************************************************)
RECURSIVE BitAnd(_, _)
BitAnd(a, b) ==
  IF a = 0 \/ b = 0 THEN 0
  ELSE (a % 2) * (b % 2) + 2 * BitAnd(a \div 2, b \div 2)

RECURSIVE BitOr(_, _)
BitOr(a, b) ==
  IF a = 0 THEN b
  ELSE IF b = 0 THEN a
  ELSE (IF a % 2 = 1 \/ b % 2 = 1 THEN 1 ELSE 0) + 2 * BitOr(a \div 2, b \div 2)

RECURSIVE ShiftRight(_, _)
ShiftRight(a, n) == IF n = 0 THEN a ELSE ShiftRight(a \div 2, n - 1)

(***************************************************************************)
(* nom.  A parser is the value a combinator returns; run(P, b) applies it  *)
(* to the input slice b and gives the IResult: Ok with the rest of the     *)
(* input and the output, or Err::Error with nom's (input, ErrorKind) pair. *)
(* raisedBy records which combinator built the error.                      *)
(***************************************************************************)
Ok(rest, out) == [ok |-> TRUE, rest |-> rest, out |-> out]
Err(input, code, by) ==
  [ok |-> FALSE, input |-> input, code |-> code, raisedBy |-> by]

Drop(b, n) == SubSeq(b, n + 1, Len(b))

\* number::complete::le_u8 and le_u16, bytes::complete::take
le_u8 == [p |-> "le_u8"]
le_u16 == [p |-> "le_u16"]
take(n) == [p |-> "take", n |-> n]

\* combinator::map, sequence::preceded, sequence::tuple, multi::count,
\* multi::many0, combinator::all_consuming
map(f, g) == [p |-> "map", f |-> f, g |-> g]
preceded(first, second) == [p |-> "preceded", first |-> first, second |-> second]
tuple(fs) == [p |-> "tuple", fs |-> fs]
count(f, n) == [p |-> "count", f |-> f, n |-> n]
many0(f) == [p |-> "many0", f |-> f]
all_consuming(f) == [p |-> "all_consuming", f |-> f]

WPE_BLOCK_SIZE == 3

\* the functions given to map: the tuple structs CV5, VX4, VF4, VR4, CV5s,
\* VX4s, VF4s, VR4s, WPEs and Arc::new wrap their argument; the closure of
\* parse_wpe builds WPE([r, g, b]) from (r, g, b, _)
apply(g, x) ==
  IF g = "WPE" THEN SubSeq(x, 1, WPE_BLOCK_SIZE) ELSE x

RECURSIVE run(_, _)

\* tuple: the parsers of fs one after the other
RECURSIVE tupleLoop(_, _)
tupleLoop(fs, st) ==
  IF fs = <<>> THEN Ok(st.input, st.res)
  ELSE LET r == run(Head(fs), st.input) IN
       IF r.ok
         THEN tupleLoop(Tail(fs), [input |-> r.rest, res |-> Append(st.res, r.out)])
         ELSE r

\* count: f applied n times in sequence, each time to the input the previous
\* application left, the outputs collected in order; the first error ends the
\* loop and, with the (input, ErrorKind) error type, append keeps that error.
\* st holds the loop's locals.  The n applications are evaluated as the first
\* n \div 2 followed by the rest, which is the same sequence.
RECURSIVE countLoop(_, _, _)
countLoop(f, n, st) ==
  IF n = 0 THEN Ok(st.input, st.res)
  ELSE IF n = 1
    THEN LET r == run(f, st.input) IN
         IF r.ok THEN Ok(r.rest, Append(st.res, r.out)) ELSE r
  ELSE LET a == countLoop(f, n \div 2, st) IN
       IF a.ok
         THEN countLoop(f, n - n \div 2, [input |-> a.rest, res |-> a.out])
         ELSE a

\* many0: stops, successfully, at the first Err::Error of f; an f that
\* consumes nothing is an error
RECURSIVE many0Loop(_, _)
many0Loop(f, st) ==
  LET r == run(f, st.i) IN
  IF ~r.ok THEN Ok(st.i, st.acc)
  ELSE IF r.rest = st.i THEN Err(st.i, "Many0", "many0")
  ELSE many0Loop(f, [i |-> r.rest, acc |-> Append(st.acc, r.out)])

run(P, b) ==
  CASE P.p = "le_u8" ->
         IF Len(b) < 1 THEN Err(b, "Eof", "le_u8") ELSE Ok(Drop(b, 1), b[1])
    [] P.p = "le_u16" ->
         IF Len(b) < 2 THEN Err(b, "Eof", "le_u16")
         ELSE Ok(Drop(b, 2), b[1] + 256 * b[2])
    [] P.p = "take" ->
         IF Len(b) < P.n THEN Err(b, "Eof", "take")
         ELSE Ok(Drop(b, P.n), SubSeq(b, 1, P.n))
    [] P.p = "map" ->
         LET r == run(P.f, b) IN
         IF r.ok THEN Ok(r.rest, apply(P.g, r.out)) ELSE r
    [] P.p = "preceded" ->
         LET r == run(P.first, b) IN
         IF r.ok THEN run(P.second, r.rest) ELSE r
    [] P.p = "tuple" -> tupleLoop(P.fs, [input |-> b, res |-> <<>>])
    [] P.p = "count" -> countLoop(P.f, P.n, [input |-> b, res |-> <<>>])
    [] P.p = "many0" -> many0Loop(P.f, [i |-> b, acc |-> <<>>])
    [] P.p = "all_consuming" ->
         LET r == run(P.f, b) IN
         IF r.ok /\ Len(r.rest) > 0
           THEN Err(r.rest, "Eof", "all_consuming")
           ELSE r

(***************************************************************************)
(* CV5                                                                     *)
(***************************************************************************)
parse_cv5 == map(le_u16, "CV5")

MEGA_TILE_REFERENCE_COUNT == 16

\* the bytes taken before the references of a group
CV5_HEADER_SIZE == 20

\* parse_cv5s reading the references from the start of the group
parse_cv5s_NoHeader ==
  all_consuming(map(map(
    many0(preceded(count(parse_cv5, MEGA_TILE_REFERENCE_COUNT),
                   map(take(CV5_HEADER_SIZE), "Arc::new"))),
    "Arc::new"), "CV5s"))

\* parse_cv5s without all_consuming
parse_cv5s_Lenient ==
  map(map(
    many0(preceded(take(CV5_HEADER_SIZE),
                   count(parse_cv5, MEGA_TILE_REFERENCE_COUNT))),
    "Arc::new"), "CV5s")

parse_cv5s ==
  all_consuming(map(map(
    many0(preceded(take(CV5_HEADER_SIZE),
                   count(parse_cv5, MEGA_TILE_REFERENCE_COUNT))),
    "Arc::new"), "CV5s"))

(***************************************************************************)
(* VX4                                                                     *)
(***************************************************************************)
VX4_is_horizontally_flipped(v) == BitAnd(v, 1) = 1

\* index() keeping the 7 high bits only
VX4_index_SevenHighBits(v) == ShiftRight(v, 9)

VX4_index(v) == ShiftRight(v, 1)

parse_vx4 == map(le_u16, "VX4")

VX4s_BLOCK_SIZE == 16

\* parse_vx4s without the grouping of the entries into blocks
parse_vx4s_Flat ==
  all_consuming(map(map(many0(parse_vx4), "Arc::new"), "VX4s"))

parse_vx4s ==
  all_consuming(map(map(many0(count(parse_vx4, VX4s_BLOCK_SIZE)), "Arc::new"),
                    "VX4s"))

(***************************************************************************)
(* VF4                                                                     *)
(***************************************************************************)
VF4_WALKABLE == 1
VF4_MID == 2
VF4_HIGH == 4
VF4_LOW == BitOr(4, 2)
VF4_BLOCKS_VIEW == 8
VF4_RAMP == 16

is_walkable(w) == BitAnd(w, VF4_WALKABLE) = VF4_WALKABLE

is_elevation_mid(w) == BitAnd(w, VF4_MID) = VF4_MID

is_elevation_high(w) == BitAnd(w, VF4_HIGH) = VF4_HIGH

\* is_elevation_low true when any bit of the mask is set
is_elevation_low_AnyBit(w) == BitAnd(w, VF4_LOW) # 0

is_elevation_low(w) == BitAnd(w, VF4_LOW) = VF4_LOW

blocks_view(w) == BitAnd(w, VF4_BLOCKS_VIEW) = VF4_BLOCKS_VIEW

is_ramp(w) == BitAnd(w, VF4_RAMP) = VF4_RAMP

VF4s_BLOCK_SIZE == 16

parse_vf4s ==
  all_consuming(map(map(many0(count(map(le_u16, "VF4"), VF4s_BLOCK_SIZE)),
                        "Arc::new"), "VF4s"))

(***************************************************************************)
(* VR4                                                                     *)
(***************************************************************************)
parse_vr4 == map(le_u8, "VR4")

VR4s_BLOCK_SIZE == 64

MINITILE_SIDE_LENGTH == 8

parse_vr4s ==
  all_consuming(map(map(many0(count(parse_vr4, VR4s_BLOCK_SIZE)), "Arc::new"),
                    "VR4s"))

(***************************************************************************)
(* WPE                                                                     *)
(***************************************************************************)
parse_wpe == map(tuple(<<le_u8, le_u8, le_u8, le_u8>>), "WPE")

\* parse_wpes made of the record parser alone, whose error is the result
parse_wpes_Truncating ==
  map(map(count(parse_wpe, 1), "Arc::new"), "WPEs")

parse_wpes == all_consuming(map(map(many0(parse_wpe), "Arc::new"), "WPEs"))

(***************************************************************************)
(* Format::import_simple of the five formats: the table, or the parser's   *)
(* error made owned.                                                       *)
(***************************************************************************)
Formats == {"CV5", "VX4", "VF4", "VR4", "WPE"}

Loaded(r) ==
  IF r.ok THEN [ok |-> TRUE, table |-> r.out]
  ELSE [ok |-> FALSE, input |-> r.input, code |-> r.code,
        raisedBy |-> r.raisedBy]

CV5Format_import_simple(bytes) == Loaded(run(parse_cv5s, bytes))
VX4Format_import_simple(bytes) == Loaded(run(parse_vx4s, bytes))
VF4Format_import_simple(bytes) == Loaded(run(parse_vf4s, bytes))
VR4Format_import_simple(bytes) == Loaded(run(parse_vr4s, bytes))
WPEFormat_import_simple(bytes) == Loaded(run(parse_wpes, bytes))

(***************************************************************************)
(* The buffers handed to the loader: k complete records followed by e      *)
(* further bytes, filled with a pattern.                                   *)
(***************************************************************************)
RecordSize ==
  [CV5 |-> 52, VX4 |-> 32, VF4 |-> 32, VR4 |-> 64, WPE |-> 4]

Extras(size) == {0, 1, 2, size \div 2, size - 1}

Lengths(fmt) ==
  {k * RecordSize[fmt] + e : k \in 0..MaxRecords, e \in Extras(RecordSize[fmt])}

Pattern(len, seed) == [i \in 1..len |-> (i * 7 + seed * 13 + (i \div 5)) % 256]

Inputs ==
  UNION {{[fmt |-> f, bytes |-> Pattern(n, sd)] :
            n \in Lengths(f), sd \in 0..MaxSeed} : f \in Formats}

\* the positions (from 1) of the bytes the format's parser reads no value from
IgnoredPositions(fmt, len) ==
  CASE fmt = "CV5" -> {i \in 1..len : (i - 1) % 52 < 20}
    [] fmt = "WPE" -> {i \in 1..len : (i - 1) % 4 = 3}
    [] OTHER -> {}

\* the buffer with the bytes at positions P changed
Patch(bytes, P) ==
  [i \in 1..Len(bytes) |-> IF i \in P THEN (bytes[i] + 1) % 256 ELSE bytes[i]]

Patches(fmt, len) == {{p} : p \in 1..len} \cup {IgnoredPositions(fmt, len)}

NoRun == [fmt |-> "none"]
NoInput == [fmt |-> "none", bytes |-> <<>>]

import_simple(fmt, bytes) ==
  CASE fmt = "CV5" -> CV5Format_import_simple(bytes)
    [] fmt = "VX4" -> VX4Format_import_simple(bytes)
    [] fmt = "VF4" -> VF4Format_import_simple(bytes)
    [] fmt = "VR4" -> VR4Format_import_simple(bytes)
    [] fmt = "WPE" -> WPEFormat_import_simple(bytes)

(***************************************************************************)
(* Spec: one buffer is imported, then the same buffer with some bytes      *)
(* changed is imported again.                                              *)
(***************************************************************************)
NoAssets == [f \in Formats |-> [ok |-> FALSE, code |-> "NotLoaded"]]
NoOutcome == [op |-> "none"]
NoEval == [kind |-> "none"]

Init ==
  /\ pending \in Inputs
  /\ last = NoRun
  /\ prev = NoRun
  /\ assets = NoAssets
  /\ outcome = NoOutcome
  /\ word = 0
  /\ eval = NoEval

Import(fmt) ==
  /\ pending.fmt = fmt
  /\ last = NoRun
  /\ last' = [fmt |-> fmt, bytes |-> pending.bytes,
              result |-> import_simple(fmt, pending.bytes)]
  /\ UNCHANGED <<pending, prev, assets, outcome, word, eval>>

ImportCV5 == Import("CV5")
ImportVX4 == Import("VX4")
ImportVF4 == Import("VF4")
ImportVR4 == Import("VR4")
ImportWPE == Import("WPE")

\* the next file to import: the last one with some of its bytes changed
Tamper ==
  /\ last # NoRun
  /\ prev = NoRun
  /\ \E P \in Patches(last.fmt, Len(last.bytes)) :
        /\ P # {}
        /\ pending' = [fmt |-> last.fmt, bytes |-> Patch(last.bytes, P)]
  /\ prev' = last
  /\ last' = NoRun
  /\ UNCHANGED <<assets, outcome, word, eval>>

Next ==
  \/ ImportCV5
  \/ ImportVX4
  \/ ImportVF4
  \/ ImportVR4
  \/ ImportWPE
  \/ Tamper

Spec == Init /\ [][Next]_vars

(***************************************************************************)
(* Properties of the decoders, checked under Spec.                         *)
(***************************************************************************)
EntryCount ==
  [CV5 |-> 16, VX4 |-> 16, VF4 |-> 16, VR4 |-> 64, WPE |-> 3]

Imported == last # NoRun

\* the error of a record parser that ran out of bytes
TruncatedInput(r) == ~r.ok /\ r.raisedBy \in {"le_u8", "le_u16", "take"}

\* the error of all_consuming: bytes remain after the last complete record
TrailingData(r) == ~r.ok /\ r.raisedBy = "all_consuming"

NoTable(r) == "table" \notin DOMAIN r

\* C1: a buffer whose length is a multiple of the record size (the empty one
\* included) decodes, to length / record size elements, each of the format's
\* fixed entry count.
C1_ExactMultipleDecodes ==
  (Imported /\ Len(last.bytes) % RecordSize[last.fmt] = 0) =>
     /\ last.result.ok
     /\ Len(last.result.table) = Len(last.bytes) \div RecordSize[last.fmt]
     /\ \A j \in 1..Len(last.result.table) :
          Len(last.result.table[j]) = EntryCount[last.fmt]

C1_Witness ==
  /\ Imported
  /\ last.fmt = "CV5"
  /\ Len(last.bytes) = 104
  /\ last.result.ok
  /\ Len(last.result.table) = 2
  /\ Len(last.result.table[2]) = 16

OneByteShort(r) ==
  Len(r.bytes) % RecordSize[r.fmt] = RecordSize[r.fmt] - 1

\* C2 as stated: a buffer one byte short of a whole number of records fails
\* with the truncated-input error, not the trailing-data error.
C2_OneByteShortIsTruncatedInput ==
  (Imported /\ OneByteShort(last)) =>
     /\ ~last.result.ok
     /\ TruncatedInput(last.result)
     /\ ~TrailingData(last.result)
     /\ NoTable(last.result)

\* C2 amended: a buffer one byte short of a whole number of records fails
\* with the error of all_consuming (ErrorKind Eof) whose input is the
\* incomplete last record, the error every other buffer with residual bytes
\* gets; the error of the record parser is never reported; no table.
C2_OneByteShortIsTrailingData ==
  (Imported /\ OneByteShort(last)) =>
     /\ ~last.result.ok
     /\ last.result.code = "Eof"
     /\ last.result.raisedBy = "all_consuming"
     /\ ~TruncatedInput(last.result)
     /\ Len(last.result.input) = RecordSize[last.fmt] - 1
     /\ last.result.input =
          SubSeq(last.bytes,
                 Len(last.bytes) - (RecordSize[last.fmt] - 1) + 1,
                 Len(last.bytes))
     /\ NoTable(last.result)

C2_Witness ==
  /\ Imported
  /\ last.fmt = "VF4"
  /\ Len(last.bytes) = 63
  /\ ~last.result.ok
  /\ last.result.raisedBy = "all_consuming"
  /\ Len(last.result.input) = 31

\* C3: k >= 0 complete records followed by bytes that complete no further
\* record fail with the trailing-data error, not the truncated-input error,
\* and return no table.
C3_ResidualBytesAreTrailingData ==
  (Imported /\ Len(last.bytes) % RecordSize[last.fmt] # 0) =>
     /\ ~last.result.ok
     /\ TrailingData(last.result)
     /\ ~TruncatedInput(last.result)
     /\ NoTable(last.result)

C3_Witness ==
  /\ Imported
  /\ last.fmt = "VX4"
  /\ Len(last.bytes) = 33
  /\ TrailingData(last.result)
  /\ last.result.input = SubSeq(last.bytes, 33, 33)

SameOutcome(a, b) ==
  \/ ~a.ok /\ ~b.ok
  \/ a.ok /\ b.ok /\ a.table = b.table

DifferOnlyIn(a, b, P) ==
  /\ Len(a) = Len(b)
  /\ \A i \in 1..Len(a) : a[i] # b[i] => i \in P

\* C10: two CV5 buffers that differ only in the 20-byte headers, or two WPE
\* buffers that differ only in the fourth byte of records, both fail or decode
\* to the same table; every CV5 reference is lo + 256 * hi of its two bytes at
\* offset 20 + 2i of its 52-byte group.
C10_IgnoredBytesDoNotMatter ==
  /\ (/\ Imported
      /\ prev # NoRun
      /\ last.fmt = prev.fmt
      /\ last.fmt \in {"CV5", "WPE"}
      /\ DifferOnlyIn(prev.bytes, last.bytes,
                      IgnoredPositions(last.fmt, Len(last.bytes))))
       => SameOutcome(prev.result, last.result)
  /\ (Imported /\ last.fmt = "CV5" /\ last.result.ok) =>
        \A g \in 1..Len(last.result.table) : \A i \in 0..15 :
           last.result.table[g][i + 1] =
             last.bytes[52 * (g - 1) + 20 + 2 * i + 1]
               + 256 * last.bytes[52 * (g - 1) + 20 + 2 * i + 2]

C10_Witness ==
  /\ Imported
  /\ prev # NoRun
  /\ last.fmt = "CV5"
  /\ prev.bytes # last.bytes
  /\ DifferOnlyIn(prev.bytes, last.bytes, IgnoredPositions("CV5", Len(last.bytes)))
  /\ last.result.ok
  /\ Len(last.result.table) = 2
  /\ prev.result.table = last.result.table
  /\ last.result.table[1][1] # last.result.table[2][2]

(***************************************************************************)
(* SpecBits: the accessors of VX4 and the predicates of VF4, applied to    *)
(* every 16-bit word.                                                      *)
(***************************************************************************)
InitBits ==
  /\ word \in U16
  /\ eval = NoEval
  /\ pending = NoInput
  /\ last = NoRun
  /\ prev = NoRun
  /\ assets = NoAssets
  /\ outcome = NoOutcome

EvalVF4 ==
  /\ eval = NoEval
  /\ eval' = [kind |-> "VF4",
              walkable |-> is_walkable(word),
              mid |-> is_elevation_mid(word),
              high |-> is_elevation_high(word),
              low |-> is_elevation_low(word),
              blocks_view |-> blocks_view(word),
              ramp |-> is_ramp(word)]
  /\ UNCHANGED <<pending, last, prev, assets, outcome, word>>

EvalVX4 ==
  /\ eval = NoEval
  /\ eval' = [kind |-> "VX4",
              flipped |-> VX4_is_horizontally_flipped(word),
              index |-> VX4_index(word)]
  /\ UNCHANGED <<pending, last, prev, assets, outcome, word>>

NextBits ==
  \/ EvalVF4
  \/ EvalVX4

SpecBits == InitBits /\ [][NextBits]_vars

\* bit k of w, by arithmetic
Bit(w, k) == (w \div (2 ^ k)) % 2 = 1

\* C7: each VF4 predicate holds exactly when every bit of its mask is set in
\* the word (WALKABLE bit 0, MID bit 1, HIGH bit 2, LOW bits 1 and 2,
\* BLOCKS_VIEW bit 3, RAMP bit 4); so low iff mid and high, 0x0001 is walkable
\* and nothing else, and 0x0006 is low, mid and high.
C7_FlagPredicates ==
  eval.kind = "VF4" =>
     /\ eval.walkable = Bit(word, 0)
     /\ eval.mid = Bit(word, 1)
     /\ eval.high = Bit(word, 2)
     /\ eval.low = (Bit(word, 1) /\ Bit(word, 2))
     /\ eval.blocks_view = Bit(word, 3)
     /\ eval.ramp = Bit(word, 4)
     /\ eval.low = (eval.mid /\ eval.high)
     /\ (word = 1 =>
           /\ eval.walkable
           /\ ~(eval.mid \/ eval.high \/ eval.low \/ eval.blocks_view \/ eval.ramp))
     /\ (word = 6 => eval.low /\ eval.mid /\ eval.high)

C7_Witness ==
  /\ eval.kind = "VF4"
  /\ word = 6
  /\ eval.low /\ eval.mid /\ eval.high
  /\ ~eval.walkable

Val(v) == [panic |-> FALSE, val |-> v]
Panic == [panic |-> TRUE]

\* Vec's index by a usize counted from 0
VecIndex(v, i) == IF i < Len(v) THEN Val(v[i + 1]) ELSE Panic

\* map::MegaTile and its two accessors
MegaTile(g, s) == [group |-> g, subtile |-> s]
group_index(megatile) == megatile.group
subtile_index(megatile) == megatile.subtile

\* Index<&MegaTile> for CV5s
CV5s_index(self, megatile) ==
  LET group == VecIndex(self, group_index(megatile)) IN
  IF group.panic THEN Panic ELSE VecIndex(group.val, subtile_index(megatile))

\* Index<&CV5> for VX4s with the index wrapped into the table
VX4s_index_Wrapping(self, cv5) ==
  IF Len(self) = 0 THEN Panic ELSE VecIndex(self, cv5 % Len(self))

\* Index<&CV5> for VX4s
VX4s_index(self, cv5) == VecIndex(self, cv5)

\* Index<&CV5> for VF4s counting the blocks from 1
VF4s_index_FromOne(self, cv5) ==
  IF cv5 = 0 THEN Panic ELSE VecIndex(self, cv5 - 1)

\* Index<&CV5> for VF4s
VF4s_index(self, cv5) == VecIndex(self, cv5)

\* a block of MINITILE_SIDE_LENGTH rows read right to left
Mirror(block) ==
  [n \in 1..Len(block) |->
     block[((n - 1) \div MINITILE_SIDE_LENGTH) * MINITILE_SIDE_LENGTH
           + (MINITILE_SIDE_LENGTH - 1 - ((n - 1) % MINITILE_SIDE_LENGTH)) + 1]]

\* Index<&VX4> for VR4s mirroring the block of a flipped entry
VR4s_index_Mirroring(self, vx4) ==
  LET block == VecIndex(self, VX4_index(vx4)) IN
  IF block.panic THEN Panic
  ELSE Val(IF VX4_is_horizontally_flipped(vx4) THEN Mirror(block.val)
           ELSE block.val)

\* Index<&VX4> for VR4s by the whole entry, the flip bit included
VR4s_index_ByEntry(self, vx4) == VecIndex(self, vx4)

\* Index<&VX4> for VR4s
VR4s_index(self, vx4) == VecIndex(self, VX4_index(vx4))

\* Index<&VR4> for WPEs
WPEs_index(self, vr4) == VecIndex(self, vr4)

\* WPE::rgb
rgb(wpe) == <<wpe[1], wpe[2], wpe[3]>>

\* the color path: megatile -> CV5 -> VX4 block -> VX4 -> VR4 block -> VR4
\* -> WPE
color(t, megatile, k) ==
  LET cv5 == CV5s_index(t.CV5.table, megatile) IN
  IF cv5.panic THEN Panic ELSE
  LET block == VX4s_index(t.VX4.table, cv5.val) IN
  IF block.panic THEN Panic ELSE
  LET vx4 == VecIndex(block.val, subtile_index(megatile)) IN
  IF vx4.panic THEN Panic ELSE
  LET pixels == VR4s_index(t.VR4.table, vx4.val) IN
  IF pixels.panic THEN Panic ELSE
  LET vr4 == VecIndex(pixels.val, k) IN
  IF vr4.panic THEN Panic ELSE
  LET wpe == WPEs_index(t.WPE.table, vr4.val) IN
  IF wpe.panic THEN Panic ELSE Val(rgb(wpe.val))

\* the flag path: megatile -> CV5 -> VF4 block -> VF4
flags(t, megatile) ==
  LET cv5 == CV5s_index(t.CV5.table, megatile) IN
  IF cv5.panic THEN Panic ELSE
  LET block == VF4s_index(t.VF4.table, cv5.val) IN
  IF block.panic THEN Panic ELSE VecIndex(block.val, subtile_index(megatile))

(***************************************************************************)
(* The tileset files offered to the chain.  Variant 0 of each file is the  *)
(* end-to-end scenario: one CV5 group [5, 0, ..., 0], VX4 block 5 entry 0  *)
(* = (not flipped, index 2), VR4 block 2 all 7, WPE entry 7 = (10, 20, 30).*)
(* The other variants hold flipped entries, uneven pixel blocks and        *)
(* references past the end of the tables.                                  *)
(***************************************************************************)
Lo(v) == v % 256
Hi(v) == v \div 256

CV5Ref(v, g, i) ==
  IF v = 0 THEN (IF i = 0 THEN 5 ELSE 0)
  ELSE IF i = 15 THEN 65535 - g
  ELSE (5 + i * v + 3 * g) % 8

VX4Entry(v, b, i) == (b + 3 * i + 9 + v) % 10

VF4Word(v, b, i) == b * 16 + i + 256 * v * (i % 3)

VR4Pixel(v, b, k) == IF v = 0 /\ b = 2 THEN 7 ELSE (3 * k + b + v) % 9

WPEByte(v, j, c) ==
  CASE c = 0 -> (j + 3 + v) % 256
    [] c = 1 -> (2 * j + 6) % 256
    [] c = 2 -> (3 * j + 9 + v) % 256
    [] OTHER -> 255

ChainBytes(fmt, v) ==
  CASE fmt = "CV5" ->
         [p \in 1..(52 * (1 + (v % 2))) |->
            LET g == (p - 1) \div 52
                o == (p - 1) % 52
                ref == CV5Ref(v, g, (o - 20) \div 2)
            IN IF o < 20 THEN (v * o) % 256
               ELSE IF o % 2 = 0 THEN Lo(ref) ELSE Hi(ref)]
    [] fmt = "VX4" ->
         [p \in 1..(32 * (6 + (v % 2))) |->
            LET e == VX4Entry(v, (p - 1) \div 32, ((p - 1) % 32) \div 2)
            IN IF (p - 1) % 2 = 0 THEN Lo(e) ELSE Hi(e)]
    [] fmt = "VF4" ->
         [p \in 1..(32 * (6 + (v % 2))) |->
            LET w == VF4Word(v, (p - 1) \div 32, ((p - 1) % 32) \div 2)
            IN IF (p - 1) % 2 = 0 THEN Lo(w) ELSE Hi(w)]
    [] fmt = "VR4" ->
         [p \in 1..(64 * (3 + (v % 2))) |->
            VR4Pixel(v, (p - 1) \div 64, (p - 1) % 64)]
    [] fmt = "WPE" ->
         [p \in 1..(4 * (8 + (v % 2))) |-> WPEByte(v, (p - 1) \div 4, (p - 1) % 4)]

\* the pixel positions queried within a block
Pixels == {0, 9, 63}

Subtiles == 0..(MEGA_TILE_REFERENCE_COUNT - 1)

(***************************************************************************)
(* SpecChain: the five files are loaded, then one lookup is made.          *)
(***************************************************************************)
InitChain ==
  /\ assets = NoAssets
  /\ outcome = NoOutcome
  /\ pending = NoInput
  /\ last = NoRun
  /\ prev = NoRun
  /\ word = 0
  /\ eval = NoEval

Load(fmt) ==
  /\ outcome = NoOutcome
  /\ ~assets[fmt].ok
  /\ \E v \in 0..MaxVariant :
        assets' = [assets EXCEPT ![fmt] = import_simple(fmt, ChainBytes(fmt, v))]
  /\ UNCHANGED <<pending, last, prev, outcome, word, eval>>

LoadCV5 == Load("CV5")
LoadVX4 == Load("VX4")
LoadVF4 == Load("VF4")
LoadVR4 == Load("VR4")
LoadWPE == Load("WPE")

QueryColor ==
  /\ outcome = NoOutcome
  /\ assets.CV5.ok /\ assets.VX4.ok /\ assets.VR4.ok /\ assets.WPE.ok
  /\ \E g \in 0..MaxGroup, s \in Subtiles, k \in Pixels :
        outcome' = [op |-> "color", g |-> g, s |-> s, k |-> k,
                    res |-> color(assets, MegaTile(g, s), k)]
  /\ UNCHANGED <<pending, last, prev, assets, word, eval>>

QueryFlags ==
  /\ outcome = NoOutcome
  /\ assets.CV5.ok /\ assets.VF4.ok
  /\ \E g \in 0..MaxGroup, s \in Subtiles :
        outcome' = [op |-> "flags", g |-> g, s |-> s,
                    res |-> flags(assets, MegaTile(g, s))]
  /\ UNCHANGED <<pending, last, prev, assets, word, eval>>

\* the pixel block of entry i of VX4 block b
QueryPixelBlock ==
  /\ outcome = NoOutcome
  /\ assets.VX4.ok /\ assets.VR4.ok
  /\ \E b \in 1..Len(assets.VX4.table), i \in 1..VX4s_BLOCK_SIZE :
        LET vx4 == assets.VX4.table[b][i] IN
        outcome' = [op |-> "pixel_block", vx4 |-> vx4,
                    flipped |-> VX4_is_horizontally_flipped(vx4),
                    res |-> VR4s_index(assets.VR4.table, vx4)]
  /\ UNCHANGED <<pending, last, prev, assets, word, eval>>

NextChain ==
  \/ LoadCV5
  \/ LoadVX4
  \/ LoadVF4
  \/ LoadVR4
  \/ LoadWPE
  \/ QueryColor
  \/ QueryFlags
  \/ QueryPixelBlock

SpecChain == InitChain /\ [][NextChain]_vars

(***************************************************************************)
(* Properties of the lookups, checked under SpecChain.                     *)
(***************************************************************************)
Table(fmt) == assets[fmt].table

\* the reference the CV5 table holds for the queried coordinate
QueriedRef == Table("CV5")[outcome.g + 1][outcome.s + 1]

GroupInRange == outcome.g < Len(Table("CV5"))

NoValue(res) == res.panic /\ "val" \notin DOMAIN res

\* an error the caller gets as a value
ErrValue(res, e) == ~res.panic /\ res.val = [err |-> e]

\* C4 as stated: a reference not less than the length of the VX4 table (color
\* path) or of the VF4 table (flag path) gives the caller an OutOfRange error
\* value.
C4_OutOfRangeIsAnErrorValue ==
  /\ (outcome.op = "color" /\ GroupInRange /\ QueriedRef >= Len(Table("VX4")))
       => ErrValue(outcome.res, "OutOfRange")
  /\ (outcome.op = "flags" /\ GroupInRange /\ QueriedRef >= Len(Table("VF4")))
       => ErrValue(outcome.res, "OutOfRange")

\* C4 amended: a reference not less than the length of the VX4 table (color
\* path) or of the VF4 table (flag path) makes the lookup panic: the caller
\* gets no value at all, neither an error value nor an entry of another
\* block, a default, a clamped or a wrapped one.
C4_OutOfRangePanics ==
  /\ (outcome.op = "color" /\ GroupInRange /\ QueriedRef >= Len(Table("VX4")))
       => NoValue(outcome.res)
  /\ (outcome.op = "flags" /\ GroupInRange /\ QueriedRef >= Len(Table("VF4")))
       => NoValue(outcome.res)

C4_Witness ==
  /\ outcome.op = "color"
  /\ GroupInRange
  /\ QueriedRef = 65535
  /\ Len(Table("VX4")) = 6
  /\ outcome.res.panic

ScenarioGroup == <<5, 0, 0, 0, 0, 0, 0, 0, 0, 0, 0, 0, 0, 0, 0, 0>>

StoredBlock == Table("VR4")[outcome.vx4 \div 2 + 1]

BlockInRange == outcome.vx4 \div 2 < Len(Table("VR4"))

\* C6 as stated: the block looked up for an entry whose mirror flag is set is
\* the horizontal mirror of the stored block, entry (x, y) being the stored
\* entry (7 - x, y); with the flag clear it is the stored block.
C6_FlippedEntryGivesMirroredBlock ==
  (outcome.op = "pixel_block" /\ BlockInRange) =>
     /\ ~outcome.res.panic
     /\ (outcome.vx4 % 2 = 1 =>
           \A x \in 0..7, y \in 0..7 :
              outcome.res.val[8 * y + x + 1] = StoredBlock[8 * y + (7 - x) + 1])
     /\ (outcome.vx4 % 2 = 0 => outcome.res.val = StoredBlock)

\* C6 amended: the block looked up for an entry is the stored block
\* vr4s[entry.index()], 64 entries, whether the mirror flag is set or clear;
\* the flag is reported by is_horizontally_flipped() alone.
C6_StoredBlockWhateverTheFlag ==
  (outcome.op = "pixel_block" /\ BlockInRange) =>
     /\ outcome.res = Val(StoredBlock)
     /\ Len(outcome.res.val) = 64
     /\ outcome.flipped = (outcome.vx4 % 2 = 1)

C6_Witness ==
  /\ outcome.op = "pixel_block"
  /\ BlockInRange
  /\ outcome.flipped
  /\ outcome.res = Val(StoredBlock)
  /\ \E x \in 0..7, y \in 0..7 :
        StoredBlock[8 * y + x + 1] # StoredBlock[8 * y + (7 - x) + 1]

\* C9: with every index in range the flag word of (g, s) is flag_table[r][s],
\* r = megatile_table[g][s] as on the color path: r alone selects the block,
\* s alone the entry, and the word is returned as decoded.
C9_FlagPath ==
  (/\ outcome.op = "flags"
   /\ GroupInRange
   /\ QueriedRef < Len(Table("VF4")))
    => outcome.res = Val(Table("VF4")[QueriedRef + 1][outcome.s + 1])

C9_Witness ==
  /\ outcome.op = "flags"
  /\ outcome.g = 1
  /\ outcome.s = 4
  /\ GroupInRange
  /\ QueriedRef < Len(Table("VF4"))
  /\ QueriedRef > 0
  /\ ~outcome.res.panic
  /\ outcome.res.val = Table("VF4")[QueriedRef + 1][5]
  /\ outcome.res.val > 255

====
